---- MODULE Spec2Model ----
(***************************************************************************)
(* Order Analytics dashboard (src/app.py).  One run of the script is a     *)
(* pipeline over two uploaded sheets, Orders and Searches: column          *)
(* validation, event-name mapping, event filter, confirmed/cart split,     *)
(* summary metrics, daily series, funnel accumulation, pareto percentages, *)
(* key metrics, per-event metric, price distribution and detail table.     *)
(* An uncaught Python exception ends the run where it is raised; whatever  *)
(* was rendered before stays on the page.                                  *)
(***************************************************************************)
EXTENDS Integers, Sequences, FiniteSets, TLC

(***************************************************************************)
(* Bounds of the model.                                                    *)
(***************************************************************************)
MaxOrders == 2      \* rows of the Orders sheet
MaxSearches == 2    \* rows of the Searches sheet

(***************************************************************************)
(* Generic helpers on sequences.                                           *)
(***************************************************************************)
Range(s) == {s[i] : i \in 1..Len(s)}

SeqsUpTo(S, n) == UNION {[1..k -> S] : k \in 0..n}

RECURSIVE SumCol(_, _)
\* pandas Series.sum() of column c over the rows of table t (0 when empty).
SumCol(t, c) == IF t = <<>> THEN 0 ELSE Head(t)[c] + SumCol(Tail(t), c)

AddCol(r, c, v) == (c :> v) @@ r

\* Series.unique(): distinct values in order of first appearance.
NoUnique(s) == s

RECURSIVE Unique(_)
Unique(s) ==
    IF s = <<>> THEN <<>>
    ELSE LET u == Unique(SubSeq(s, 1, Len(s) - 1))
             x == s[Len(s)]
         IN  IF x \in Range(u) THEN u ELSE Append(u, x)

Column(t, c) == [i \in 1..Len(t) |-> t[i][c]]

(***************************************************************************)
(* Floating point results.  A quotient is kept as the pair it is computed  *)
(* from; numpy/pandas division by zero yields NaN (0/0) or inf (x/0).      *)
(***************************************************************************)
Ratio(n, d) == [kind |-> "num", num |-> n, den |-> d]
Zero == Ratio(0, 1)
NaN == [kind |-> "NaN", num |-> 0, den |-> 0]
Inf == [kind |-> "inf", num |-> 0, den |-> 0]

\* numpy / pandas true division of non-negative integers, times k.
NpDiv(a, b, k) == IF b # 0 THEN Ratio(a * k, b) ELSE IF a = 0 THEN NaN ELSE Inf

IsZero(q) == q.kind = "num" /\ q.num = 0

(***************************************************************************)
(* Static configuration.                                                   *)
(***************************************************************************)
event_names ==
    (2 :> "Rimini Marathon") @@ (5 :> "Champions Pulcini") @@ (9 :> "Nova Eroica") @@
    (10 :> "50KM Romagna") @@ (11 :> "Bulls Game") @@ (13 :> "Triathlon Caorle") @@
    (14 :> "GF Squali") @@ (15 :> "Nove Colli") @@ (16 :> "Oceanman Cattolica") @@
    (18 :> "Ironlake") @@ (19 :> "GFVento") @@ (20 :> "Bardolino") @@ (21 :> "WMF")

\* Series.map(event_names).fillna(Series.astype(str))
EventName(id) == IF id \in DOMAIN event_names THEN event_names[id] ELSE ToString(id)

ValidatedOrdersColumns == {"eventId", "amount", "stateId"}
ValidatedSearchesColumns == {"event_id", "unique_users_count"}

FunnelColumns ==
    <<"total_users_count", "unique_users_count", "total_orders_users",
      "total_orders", "total_allphotos">>

AllOrdersColumns == ValidatedOrdersColumns \cup {"datePayment"}
AllSearchesColumns == {"event_id"} \cup Range(FunnelColumns)

bins == <<0, 10, 20, 30, 40, 50>>     \* the last edge, float('inf'), is implicit
\* the labels of line 318, without their euro sign
labels == <<"0-10", "11-20", "21-30", "31-40", "41-50", ">50">>
NoBucket == "NaN"

metric_choices == {"Spesa media", "Valore utente", "Incasso totale"}

(***************************************************************************)
(* Normalisation, filter and partition (lines 40-70).                      *)
(***************************************************************************)
\* df["eventName"] = df[idcol].map(event_names).fillna(df[idcol].astype(str))
WithEventName(t, idcol) ==
    [i \in 1..Len(t) |-> AddCol(t[i], "eventName", EventName(t[i][idcol]))]

IsIn(r, sel) == r.eventName \in sel

FilterAlways(t, sel) == SelectSeq(t, LAMBDA r : IsIn(r, sel))

\* if selected_events: df[df['eventName'].isin(selected_events)] else the table
FilterEvents(t, sel) == IF sel # {} THEN SelectSeq(t, LAMBDA r : IsIn(r, sel)) ELSE t

\* len(selected_events) == 1 with a non-empty selection
SingleEvent(sel) == sel # {} /\ Cardinality(sel) = 1

NoPartition(t) == t

\* confirmed = df[df['stateId'] != 1]
Confirmed(t) == SelectSeq(t, LAMBDA r : r.stateId # 1)

\* cart_users = df[df['stateId'] == 1]
CartUsers(t) == SelectSeq(t, LAMBDA r : r.stateId = 1)

(***************************************************************************)
(* Grouped reductions.  A grouped frame is a function from the tuples of   *)
(* key values that occur to the reduced value.                             *)
(***************************************************************************)
KeyOf(r, by) == [j \in 1..Len(by) |-> r[by[j]]]

Keys(t, by) == {KeyOf(t[i], by) : i \in 1..Len(t)}

Group(t, by, k) == SelectSeq(t, LAMBDA r : KeyOf(r, by) = k)

\* t.groupby(by)[col].sum()
GroupSum(t, by, col) == [k \in Keys(t, by) |-> SumCol(Group(t, by, k), col)]

\* t.groupby(by)[col].mean()
GroupMean(t, by, col) ==
    [k \in Keys(t, by) |-> Ratio(SumCol(Group(t, by, k), col), Len(Group(t, by, k)))]

(***************************************************************************)
(* Daily series (lines 94-137).                                            *)
(***************************************************************************)
NaT == "NaT"

to_date ==
    ("2024-05-01 09:30" :> "2024-05-01") @@ ("2024-05-01 18:00" :> "2024-05-01") @@
    ("2024-05-02 09:30" :> "2024-05-02")

KeepTimestamp(s) == IF s \in DOMAIN to_date THEN s ELSE NaT

\* pd.to_datetime(s, errors='coerce').dt.date
ToDate(s) == IF s \in DOMAIN to_date THEN to_date[s] ELSE NaT

WithDate(t) == [i \in 1..Len(t) |-> AddCol(t[i], "date", ToDate(t[i].datePayment))]

\* confirmed.dropna(subset=['date'])
DateDf(t) == SelectSeq(t, LAMBDA r : r.date # NaT)

DailyBy(sel) == IF SingleEvent(sel) THEN <<"date">> ELSE <<"date", "eventName">>

AmountByDate(t, sel) ==
    [by |-> DailyBy(sel), rows |-> GroupSum(DateDf(t), DailyBy(sel), "amount")]

(***************************************************************************)
(* Funnel accumulation (lines 158-174).                                    *)
(***************************************************************************)
FunnelNames ==
    <<"selfies_count", "unique_users", "cart_users_count", "purchases_count",
      "complete_packages">>

\* the five counters as Python ints 0; numpy is FALSE while they are Python ints
FunnelZero ==
    [selfies_count |-> 0, unique_users |-> 0, cart_users_count |-> 0,
     purchases_count |-> 0, complete_packages |-> 0, numpy |-> FALSE]

EventData(s, id) == SelectSeq(s, LAMBDA r : r.event_id = id)

Accumulate(acc, event_data) ==
    [selfies_count |-> acc.selfies_count + SumCol(event_data, "total_users_count"),
     unique_users |-> acc.unique_users + SumCol(event_data, "unique_users_count"),
     cart_users_count |-> acc.cart_users_count + SumCol(event_data, "total_orders_users"),
     purchases_count |-> acc.purchases_count + SumCol(event_data, "total_orders"),
     complete_packages |-> acc.complete_packages + SumCol(event_data, "total_allphotos"),
     numpy |-> TRUE]

RECURSIVE FunnelLoop(_, _, _)
\* for event_id in ids: event_data = s[s.event_id == event_id]; if not empty: add
FunnelLoop(ids, s, acc) ==
    IF ids = <<>> THEN acc
    ELSE LET event_data == EventData(s, Head(ids))
         IN  FunnelLoop(Tail(ids), s,
                        IF event_data # <<>> THEN Accumulate(acc, event_data) ELSE acc)

EventIdsOf(t) == Unique(Column(t, "eventId"))

Funnel(t, s) == IF s # <<>> THEN FunnelLoop(EventIdsOf(t), s, FunnelZero) ELSE FunnelZero

\* some eventId of df has rows in the filtered Searches sheet: lines 170-174 run
FunnelReads(t, s) == \E i \in 1..Len(t) : EventData(s, t[i].eventId) # <<>>

(***************************************************************************)
(* Pareto percentages and key metrics (lines 180-250).                     *)
(***************************************************************************)
Values(f) == [i \in 1..Len(FunnelNames) |-> f[FunnelNames[i]]]

\* values / selfies_count * 100 with selfies_count a numpy integer
CumPct(f) == [i \in 1..Len(FunnelNames) |-> NpDiv(Values(f)[i], f.selfies_count, 100)]

ConversionRate(f) ==
    IF f.unique_users > 0 THEN Ratio(f.purchases_count * 100, f.unique_users) ELSE Zero

UserValue(total, f) == IF f.unique_users > 0 THEN Ratio(total, f.unique_users) ELSE Zero

(***************************************************************************)
(* Per-event metric and price distribution (lines 281-323).                *)
(***************************************************************************)
\* pd.merge(event_totals, event_users, on='eventName', how='left'), then amount / users
UserValueByEvent(c, s) ==
    LET event_totals == GroupSum(c, <<"eventName">>, "amount")
        event_users == GroupSum(s, <<"eventName">>, "unique_users_count")
    IN  [k \in DOMAIN event_totals |->
            IF k \in DOMAIN event_users
            THEN NpDiv(event_totals[k], event_users[k], 1)
            ELSE NaN]

MetricDf(choice, c, s) ==
    IF choice = "Spesa media" THEN GroupMean(c, <<"eventName">>, "amount")
    ELSE IF choice = "Valore utente" THEN UserValueByEvent(c, s)
    ELSE GroupSum(c, <<"eventName">>, "amount")

\* pd.cut(amount, bins, labels): right-closed intervals (bins[i], bins[i+1]]
InBin(a, i) == bins[i] < a /\ (i = Len(bins) \/ a <= bins[i + 1])

Cut(a) ==
    IF \E i \in 1..Len(bins) : InBin(a, i)
    THEN labels[CHOOSE i \in 1..Len(bins) : InBin(a, i)]
    ELSE NoBucket

WithPriceRange(t) == [i \in 1..Len(t) |-> AddCol(t[i], "price_range", Cut(t[i].amount))]

\* value_counts() of a categorical: every category, missing values dropped
ValueCounts(t) ==
    [l \in Range(labels) |-> Cardinality({i \in 1..Len(t) : t[i].price_range = l})]

(***************************************************************************)
(* State of one run of the script.                                         *)
(***************************************************************************)
VARIABLES
    uploaded_file,          \* a workbook was uploaded
    orders_columns,         \* df_orders.columns as read from the workbook
    searches_columns,       \* df_searches.columns as read from the workbook
    df_orders,              \* rows of sheet Orders
    df_searches,            \* rows of sheet Searches
    selected_events,        \* the multiselect's value
    df,                     \* filtered orders
    df_searches_filtered,   \* filtered searches
    confirmed,              \* df[stateId != 1], with the columns added later
    cart_users,             \* df[stateId == 1]
    total_orders, total_amount, avg_amount,
    amount_by_date,         \* the frame plotted by fig_daily, with its grouping keys
    funnel,                 \* the five funnel counters and whether they are numpy ints
    cum_pct, conversion_rate, user_value,
    metric_choice, metric_df, price_distribution,
    assigned,               \* names bound so far in the script's namespace
    out,                    \* what has been rendered on the page, in order
    error,                  \* "none", "SchemaError" (st.error) or the exception raised
    pc                      \* position in the script

inputs == <<uploaded_file, orders_columns, searches_columns>>
frames == <<df_orders, df_searches>>
filtered == <<selected_events, df, df_searches_filtered, cart_users>>
summary == <<total_orders, total_amount, avg_amount>>
pareto == <<cum_pct, conversion_rate, user_value>>
breakdown == <<metric_choice, metric_df, price_distribution>>

vars ==
    <<inputs, frames, filtered, confirmed, summary, amount_by_date, funnel, pareto,
      breakdown, assigned, out, error, pc>>

(***************************************************************************)
(* Uploaded workbooks.                                                     *)
(***************************************************************************)
EventIds == {2, 7}          \* 2 is in event_names, 7 is not
Amounts == {0, 15}
StateIds == {1, 4}
DatePayments == {"2024-05-01 09:30", "2024-05-02 09:30", "n/a"}

OrderRows ==
    [eventId : EventIds, amount : Amounts, stateId : StateIds, datePayment : DatePayments]

Order(e, a, st, d) == [eventId |-> e, amount |-> a, stateId |-> st, datePayment |-> d]

\* total_users_count, unique_users_count, total_orders_users, total_orders, total_allphotos
FunnelVectors == {<<0, 0, 0, 0, 0>>, <<4, 3, 2, 1, 1>>, <<0, 1, 1, 1, 0>>, <<2, 0, 1, 0, 0>>}

Search(e, v) ==
    [event_id |-> e, total_users_count |-> v[1], unique_users_count |-> v[2],
     total_orders_users |-> v[3], total_orders |-> v[4], total_allphotos |-> v[5]]

SearchRows == {Search(e, v) : e \in EventIds, v \in FunnelVectors}

RefSearches == <<Search(2, <<4, 3, 2, 1, 1>>), Search(7, <<2, 0, 1, 0, 0>>)>>

RefOrders ==
    { <<Order(2, 15, 4, "2024-05-01 09:30")>>,
      <<Order(2, 15, 4, "2024-05-01 09:30"), Order(7, 10, 4, "2024-05-01 18:00")>>,
      <<Order(2, 10, 4, "2024-05-01 09:30"), Order(2, 15, 4, "2024-05-01 18:00")>>,
      <<Order(7, 0, 4, "n/a"), Order(2, 10, 1, "2024-05-02 09:30")>> }

\* a sheet without column c
DropColumn(t, c) == [i \in 1..Len(t) |-> [k \in (DOMAIN t[i]) \ {c} |-> t[i][k]]]

Workbooks ==
    \* every Orders sheet, with a Searches sheet that covers both events
    { [orders |-> o, searches |-> RefSearches, ocols |-> AllOrdersColumns,
       scols |-> AllSearchesColumns] : o \in SeqsUpTo(OrderRows, MaxOrders) }
    \cup
    \* every Searches sheet, with a few Orders sheets
    { [orders |-> o, searches |-> s, ocols |-> AllOrdersColumns,
       scols |-> AllSearchesColumns] : o \in RefOrders, s \in SeqsUpTo(SearchRows, MaxSearches) }
    \cup
    \* an Orders sheet that lacks one column
    { [orders |-> DropColumn(o, c), searches |-> RefSearches,
       ocols |-> AllOrdersColumns \ {c}, scols |-> AllSearchesColumns] :
         o \in RefOrders, c \in AllOrdersColumns }
    \cup
    \* a Searches sheet that lacks one column
    { [orders |-> o, searches |-> DropColumn(RefSearches, c),
       ocols |-> AllOrdersColumns, scols |-> AllSearchesColumns \ {c}] :
         o \in RefOrders, c \in AllSearchesColumns }

Init ==
    /\ \/ /\ uploaded_file = TRUE
          /\ \E w \in Workbooks :
                /\ df_orders = w.orders
                /\ df_searches = w.searches
                /\ orders_columns = w.ocols
                /\ searches_columns = w.scols
       \/ /\ uploaded_file = FALSE
          /\ df_orders = <<>>
          /\ df_searches = <<>>
          /\ orders_columns = {}
          /\ searches_columns = {}
    /\ selected_events = {}
    /\ df = <<>>
    /\ df_searches_filtered = <<>>
    /\ confirmed = <<>>
    /\ cart_users = <<>>
    /\ total_orders = 0
    /\ total_amount = 0
    /\ avg_amount = Zero
    /\ amount_by_date = [by |-> <<>>, rows |-> <<>>]
    /\ funnel = FunnelZero
    /\ cum_pct = <<>>
    /\ conversion_rate = Zero
    /\ user_value = Zero
    /\ metric_choice = "Spesa media"
    /\ metric_df = <<>>
    /\ price_distribution = <<>>
    /\ assigned = {}
    /\ out = <<>>
    /\ error = "none"
    /\ pc = "start"

(***************************************************************************)
(* The script, top to bottom.                                              *)
(***************************************************************************)
Render(x) == out' = Append(out, x)

\* lines 356-357: no workbook uploaded
NoFile ==
    /\ pc = "start"
    /\ ~uploaded_file
    /\ Render("st.info")
    /\ pc' = "done"
    /\ UNCHANGED <<inputs, frames, filtered, confirmed, summary, amount_by_date, funnel,
                   pareto, breakdown, assigned, error>>

\* lines 34-35: the Orders sheet lacks eventId, amount or stateId
SchemaErrorOrders ==
    /\ pc = "start"
    /\ uploaded_file
    /\ ~(ValidatedOrdersColumns \subseteq orders_columns)
    /\ Render("st.error")
    /\ error' = "SchemaError"
    /\ pc' = "done"
    /\ UNCHANGED <<inputs, frames, filtered, confirmed, summary, amount_by_date, funnel,
                   pareto, breakdown, assigned>>

\* lines 36-37: the Searches sheet lacks event_id or unique_users_count
SchemaErrorSearches ==
    /\ pc = "start"
    /\ uploaded_file
    /\ ValidatedOrdersColumns \subseteq orders_columns
    /\ ~(ValidatedSearchesColumns \subseteq searches_columns)
    /\ Render("st.error")
    /\ error' = "SchemaError"
    /\ pc' = "done"
    /\ UNCHANGED <<inputs, frames, filtered, confirmed, summary, amount_by_date, funnel,
                   pareto, breakdown, assigned>>

\* lines 38-43: both sheets pass validation and get their eventName column
Normalize ==
    /\ pc = "start"
    /\ uploaded_file
    /\ ValidatedOrdersColumns \subseteq orders_columns
    /\ ValidatedSearchesColumns \subseteq searches_columns
    /\ df_orders' = WithEventName(df_orders, "eventId")
    /\ df_searches' = WithEventName(df_searches, "event_id")
    /\ pc' = "select"
    /\ UNCHANGED <<inputs, filtered, confirmed, summary, amount_by_date, funnel, pareto,
                   breakdown, assigned, out, error>>

\* options=sorted(df_orders['eventName'].unique())
Options == Range(Column(df_orders, "eventName"))

\* lines 46-70: the event filter, the title and the confirmed / cart split
SelectEvents ==
    /\ pc = "select"
    /\ \E sel \in SUBSET Options :
          /\ selected_events' = sel
          /\ df' = FilterEvents(df_orders, sel)
          /\ df_searches_filtered' = FilterEvents(df_searches, sel)
    /\ confirmed' = Confirmed(df')
    /\ cart_users' = CartUsers(df')
    /\ Render("st.title")
    /\ assigned' = assigned \cup {"df", "df_searches_filtered", "confirmed", "cart_users"}
    /\ pc' = "partitioned"
    /\ UNCHANGED <<inputs, frames, summary, amount_by_date, funnel, pareto, breakdown,
                   error>>

\* lines 72-73: no confirmed order, a warning and nothing else
NoConfirmed ==
    /\ pc = "partitioned"
    /\ confirmed = <<>>
    /\ Render("st.warning")
    /\ pc' = "done"
    /\ UNCHANGED <<inputs, frames, filtered, confirmed, summary, amount_by_date, funnel,
                   pareto, breakdown, assigned, error>>

\* lines 75-86: the three summary metrics
Summary ==
    /\ pc = "partitioned"
    /\ confirmed # <<>>
    /\ total_orders' = Len(confirmed)
    /\ total_amount' = SumCol(confirmed, "amount")
    /\ avg_amount' = Ratio(SumCol(confirmed, "amount"), Len(confirmed))
    /\ Render("summary metrics")
    /\ assigned' = assigned \cup {"total_orders", "total_amount", "avg_amount"}
    /\ pc' = "daily"
    /\ UNCHANGED <<inputs, frames, filtered, confirmed, amount_by_date, funnel, pareto,
                   breakdown, error>>

\* line 94: confirmed['datePayment'] on a sheet without that column
DailyKeyError ==
    /\ pc = "daily"
    /\ "datePayment" \notin orders_columns
    /\ error' = "KeyError"
    /\ pc' = "crashed"
    /\ UNCHANGED <<inputs, frames, filtered, confirmed, summary, amount_by_date, funnel,
                   pareto, breakdown, assigned, out>>

\* lines 94-146: the date column and the daily series
Daily ==
    /\ pc = "daily"
    /\ "datePayment" \in orders_columns
    /\ confirmed' = WithDate(confirmed)
    /\ amount_by_date' = AmountByDate(confirmed', selected_events)
    /\ Render("fig_daily")
    /\ assigned' = assigned \cup {"amount_by_date"}
    /\ pc' = "funnel"
    /\ UNCHANGED <<inputs, frames, filtered, summary, funnel, pareto, breakdown, error>>

\* lines 164-174 read the five funnel columns once an event of df has funnel rows
FunnelRaises ==
    /\ df_searches_filtered # <<>>
    /\ FunnelReads(df, df_searches_filtered)
    /\ ~(Range(FunnelColumns) \subseteq searches_columns)

FunnelKeyError ==
    /\ pc = "funnel"
    /\ FunnelRaises
    /\ error' = "KeyError"
    /\ pc' = "crashed"
    /\ UNCHANGED <<inputs, frames, filtered, confirmed, summary, amount_by_date, funnel,
                   pareto, breakdown, assigned, out>>

\* lines 158-174: the five funnel counters
FunnelCounters ==
    /\ pc = "funnel"
    /\ ~FunnelRaises
    /\ funnel' = Funnel(df, df_searches_filtered)
    /\ assigned' = assigned \cup Range(FunnelNames)
    /\ pc' = "pareto"
    /\ UNCHANGED <<inputs, frames, filtered, confirmed, summary, amount_by_date, pareto,
                   breakdown, out, error>>

\* line 184: values / selfies_count with a list and a Python int
ParetoTypeError ==
    /\ pc = "pareto"
    /\ ~funnel.numpy
    /\ error' = "TypeError"
    /\ pc' = "crashed"
    /\ UNCHANGED <<inputs, frames, filtered, confirmed, summary, amount_by_date, funnel,
                   pareto, breakdown, assigned, out>>

\* lines 184-259: pareto percentages, conversion rate and user value
ParetoRow ==
    /\ pc = "pareto"
    /\ funnel.numpy
    /\ cum_pct' = CumPct(funnel)
    /\ conversion_rate' = ConversionRate(funnel)
    /\ user_value' = UserValue(total_amount, funnel)
    /\ out' = out \o <<"fig_pareto", "key metrics">>
    /\ assigned' = assigned \cup {"cum_pct", "conversion_rate", "user_value"}
    /\ pc' = "breakdown"
    /\ UNCHANGED <<inputs, frames, filtered, confirmed, summary, amount_by_date, funnel,
                   breakdown, error>>

\* lines 265-355: per-event metric, price distribution and detail table
Breakdown ==
    /\ pc = "breakdown"
    /\ \E choice \in metric_choices :
          /\ metric_choice' = choice
          /\ metric_df' = MetricDf(choice, confirmed, df_searches_filtered)
    /\ confirmed' = WithPriceRange(confirmed)
    /\ price_distribution' = ValueCounts(confirmed')
    /\ out' = out \o <<"fig_avg", "fig_pie", "st.dataframe">>
    /\ assigned' = assigned \cup {"metric_df", "price_distribution"}
    /\ pc' = "done"
    /\ UNCHANGED <<inputs, frames, filtered, summary, amount_by_date, funnel, pareto,
                   error>>

Next ==
    \/ NoFile
    \/ SchemaErrorOrders
    \/ SchemaErrorSearches
    \/ Normalize
    \/ SelectEvents
    \/ NoConfirmed
    \/ Summary
    \/ DailyKeyError
    \/ Daily
    \/ FunnelKeyError
    \/ FunnelCounters
    \/ ParetoTypeError
    \/ ParetoRow
    \/ Breakdown

Spec == Init /\ [][Next]_vars

(***************************************************************************)
(* Properties.                                                             *)
(***************************************************************************)
Ended == pc \in {"done", "crashed"}

Partitioned == "confirmed" \in assigned

RECURSIVE SumOver(_, _)
SumOver(f, S) ==
    IF S = {} THEN 0
    ELSE LET k == CHOOSE x \in S : TRUE IN f[k] + SumOver(f, S \ {k})

SumAll(f) == SumOver(f, DOMAIN f)

\* the half-open bucket [bins[j], bins[j+1]) of a non-negative amount
HalfOpenLabel(a) ==
    labels[CHOOSE j \in 1..Len(bins) : bins[j] <= a /\ (j = Len(bins) \/ a < bins[j + 1])]

\* C1: when the confirmed subset is empty the run still yields total_orders = 0,
\* total_amount = 0 and avg_amount = 0, without an error and without leaving
\* these scalars undefined.
C1_EmptyConfirmedZeroScalars ==
    (Ended /\ Partitioned /\ confirmed = <<>>) =>
        /\ error = "none"
        /\ {"total_orders", "total_amount", "avg_amount"} \subseteq assigned
        /\ total_orders = 0
        /\ total_amount = 0
        /\ IsZero(avg_amount)

\* C2: every confirmed row's price_range is the half-open bucket [0,10), [10,20),
\* [20,30), [30,40), [40,50), [50,inf) that contains its amount; 0 is in the
\* first bucket and each boundary is in the bucket it opens.
C2_HalfOpenBins ==
    ("price_distribution" \in assigned) =>
        \A i \in 1..Len(confirmed) :
            confirmed[i].price_range = HalfOpenLabel(confirmed[i].amount)

\* C3: for a non-empty confirmed subset with non-negative amounts,
\* price_distribution has exactly six buckets and its counts sum to the number
\* of confirmed rows.
C3_SixBucketsSumToConfirmed ==
    ("price_distribution" \in assigned) =>
        /\ Cardinality(DOMAIN price_distribution) = Len(labels)
        /\ SumAll(price_distribution) = Len(confirmed)

\* C4: with a non-empty confirmed subset and no funnel row for any event of the
\* filtered orders (all columns present), the run ends without an error and
\* conversion_rate, user_value and every pareto percentage are 0.
C4_EmptyFunnelZeros ==
    ( /\ Ended
      /\ Partitioned
      /\ confirmed # <<>>
      /\ AllOrdersColumns \subseteq orders_columns
      /\ AllSearchesColumns \subseteq searches_columns
      /\ ~FunnelReads(df, df_searches_filtered) ) =>
        /\ error = "none"
        /\ {"cum_pct", "conversion_rate", "user_value"} \subseteq assigned
        /\ IsZero(conversion_rate)
        /\ IsZero(user_value)
        /\ \A i \in 1..Len(cum_pct) : IsZero(cum_pct[i])

\* C5: whenever a column is missing the run renders the schema error and nothing
\* else, and a run that passed validation never fails on a missing column.
C5_SchemaShortCircuit ==
    /\ (error = "SchemaError") => out = <<"st.error">>
    /\ Partitioned => error # "KeyError"

\* the run's selection is the full set of event names of the Orders sheet
FullSelection == Partitioned /\ selected_events = Options

\* the values of a run with nothing selected
NoneDf == FilterEvents(df_orders, {})
NoneSearches == FilterEvents(df_searches, {})
NoneConfirmed == Confirmed(NoneDf)
NoneFunnel == Funnel(NoneDf, NoneSearches)
NoneDaily == AmountByDate(WithDate(NoneConfirmed), {})

SameUpToDaily ==
    LET none_confirmed == NoneConfirmed
        none_funnel == NoneFunnel
        none_total == SumCol(none_confirmed, "amount")
    IN  /\ NoneDf = df_orders
        /\ df = NoneDf
        /\ cart_users = CartUsers(NoneDf)
        /\ ("total_amount" \in assigned) =>
              /\ total_orders = Len(none_confirmed)
              /\ total_amount = none_total
              /\ avg_amount = Ratio(none_total, Len(none_confirmed))
        /\ (error = "KeyError" /\ "amount_by_date" \in assigned) =>
              FunnelReads(NoneDf, NoneSearches)
        /\ ("selfies_count" \in assigned) => funnel = none_funnel
        /\ (error = "TypeError") => ~none_funnel.numpy
        /\ ("cum_pct" \in assigned) =>
              /\ cum_pct = CumPct(none_funnel)
              /\ conversion_rate = ConversionRate(none_funnel)
              /\ user_value = UserValue(none_total, none_funnel)
        /\ ("metric_df" \in assigned) =>
              /\ metric_df = MetricDf(metric_choice, none_confirmed, NoneSearches)
              /\ price_distribution = ValueCounts(WithPriceRange(none_confirmed))

\* C6 as stated: selecting every event name of the Orders sheet gives the same
\* daily series, grouping keys included, as selecting nothing.
C6_FullSelectionSameDaily ==
    (FullSelection /\ "amount_by_date" \in assigned) => amount_by_date = NoneDaily

\* C6 amended: selecting every event name gives the same filtered rows, scalars,
\* funnel values, per-event metric and price distribution as selecting nothing;
\* the daily series is the same when the sheet has several event names, and with
\* exactly one name it has the same values keyed by date alone.
C6_FullSelectionIsIdentity ==
    FullSelection =>
        /\ SameUpToDaily
        /\ ("amount_by_date" \in assigned) =>
              LET none_daily == NoneDaily IN
              IF Cardinality(Options) # 1
              THEN amount_by_date = none_daily
              ELSE /\ amount_by_date.by = <<"date">>
                   /\ DOMAIN amount_by_date.rows = {<<k[1]>> : k \in DOMAIN none_daily.rows}
                   /\ \A k \in DOMAIN none_daily.rows :
                         amount_by_date.rows[<<k[1]>>] = none_daily.rows[k]

C6_Witness ==
    /\ pc = "done"
    /\ FullSelection
    /\ Cardinality(Options) = 2
    /\ "price_distribution" \in assigned
    /\ Cardinality(DOMAIN amount_by_date.rows) = 2

\* funnel rows of the filtered Searches sheet whose event_id is an eventId of df
Matching ==
    SelectSeq(df_searches_filtered,
              LAMBDA r : \E i \in 1..Len(df) : df[i].eventId = r.event_id)

C8_UserValueByEventGuarded ==
    ("metric_df" \in assigned /\ metric_choice = "Valore utente") =>
        \A k \in DOMAIN metric_df :
            LET users == SumCol(SelectSeq(df_searches_filtered,
                                          LAMBDA r : r.eventName = k[1]),
                                "unique_users_count")
                total == SumCol(SelectSeq(confirmed, LAMBDA r : r.eventName = k[1]),
                                "amount")
            IN  IF users = 0 THEN IsZero(metric_df[k])
                ELSE metric_df[k] = Ratio(total, users)

\* confirmed orders of the run, taken from the Orders sheet itself
Selected(r) == selected_events = {} \/ r.eventName \in selected_events
ConfirmedOrders == SelectSeq(df_orders, LAMBDA r : Selected(r) /\ r.stateId # 1)
Parsable(r) == r.datePayment \in DOMAIN to_date
Dates == {to_date[s] : s \in DOMAIN to_date}

\* C9: the daily series holds, for every date (and event name, unless exactly
\* one event is selected), the summed amount of the confirmed orders paid that
\* day; orders with an unparsable datePayment are in no daily value but are
\* counted in total_orders and total_amount.
C9_DailySeries ==
    ("amount_by_date" \in assigned) =>
        LET rows == amount_by_date.rows
            orders == ConfirmedOrders
            on(d) == SelectSeq(orders, LAMBDA r : Parsable(r) /\ to_date[r.datePayment] = d)
            of(d, n) == SelectSeq(on(d), LAMBDA r : r.eventName = n)
        IN
        /\ total_orders = Len(orders)
        /\ total_amount = SumCol(orders, "amount")
        /\ SumAll(rows) = SumCol(SelectSeq(orders, Parsable), "amount")
        /\ IF Cardinality(selected_events) = 1
           THEN /\ amount_by_date.by = <<"date">>
                /\ DOMAIN rows = {<<d>> : d \in {x \in Dates : on(x) # <<>>}}
                /\ \A k \in DOMAIN rows : rows[k] = SumCol(on(k[1]), "amount")
           ELSE /\ amount_by_date.by = <<"date", "eventName">>
                /\ DOMAIN rows = {k \in Dates \X Options : of(k[1], k[2]) # <<>>}
                /\ \A k \in DOMAIN rows : rows[k] = SumCol(of(k[1], k[2]), "amount")

C9_Witness ==
    /\ "amount_by_date" \in assigned
    /\ Len(ConfirmedOrders) = 2
    /\ \E i \in 1..2 : ~Parsable(ConfirmedOrders[i]) /\ ConfirmedOrders[i].amount > 0
    /\ \E i \in 1..2 : Parsable(ConfirmedOrders[i]) /\ ConfirmedOrders[i].amount > 0
    /\ SumAll(amount_by_date.rows) < total_amount

\* C10: the total-revenue metric has one entry per event name of the confirmed
\* subset, the entries sum to total_amount, and orders with stateId = 1
\* contribute neither to total_amount nor to any entry.
C10_RevenueByEvent ==
    ("metric_df" \in assigned /\ metric_choice = "Incasso totale") =>
        LET paid == SelectSeq(df, LAMBDA r : r.stateId # 1) IN
        /\ DOMAIN metric_df = {<<paid[i].eventName>> : i \in 1..Len(paid)}
        /\ \A k \in DOMAIN metric_df :
              metric_df[k] = SumCol(SelectSeq(paid, LAMBDA r : r.eventName = k[1]), "amount")
        /\ SumAll(metric_df) = total_amount
        /\ total_amount = SumCol(paid, "amount")

C10_Witness ==
    /\ "metric_df" \in assigned
    /\ metric_choice = "Incasso totale"
    /\ \E i \in 1..Len(df) : df[i].stateId = 1 /\ df[i].amount > 0
    /\ \E i \in 1..Len(df) : df[i].stateId # 1 /\ df[i].amount > 0

====
